---------------------------- MODULE Spec2Model ----------------------------
(***************************************************************************)
(* A model of elegantrl/AgentZoo/ElegantRL-ray/agent.py: the agent         *)
(* lifecycle (init, select_action, explore_env, update_net, soft_update,   *)
(* save_load_model) of AgentBase and its ten concrete variants.            *)
(*                                                                         *)
(* Networks are objects on a heap (nets): a field of the agent holds a     *)
(* reference, so that `self.act = self.cri` is one object with two names   *)
(* and deepcopy is a new object.  A network's parameters are a vector of   *)
(* fixed-point numbers; a product with tau is rounded to the nearest unit, *)
(* as finite-precision arithmetic rounds it.  What the external            *)
(* collaborators compute (the environment, the gradients, the sampling     *)
(* of the buffer) is a nondeterministic choice from a small set.           *)
(***************************************************************************)
EXTENDS Integers, Sequences, FiniteSets, TLC

VARIABLES
    kind,      \* the agent's class
    nets,      \* the heap: network object -> its parameter vector, or Free
    agent,     \* the agent's attributes (self.*)
    env,       \* the environment's current state
    buffer,    \* the transitions handed to buffer.append_buffer, in order
    files,     \* the checkpoint directory cwd: file name -> stored state dict
    printed,   \* what the last save_load_model call printed
    pc,        \* the running call and its position
    result,    \* how the last call ended
    trace,     \* the events of the running (or last) call, in order
    last       \* the arguments and the pre-state of the last soft_update call

vars == <<kind, nets, agent, env, buffer, files, printed, pc, result, trace, last>>

---------------------------------------------------------------------------
(* Bounds of the model *)

\* update_net calls are drawn with at most this many loop iterations
MaxIter == 2
\* explore_env calls are drawn with target_step up to this
MaxSteps == 2
\* append_buffer is followed up to this many transitions
MaxBuf == 2

---------------------------------------------------------------------------
(* Values *)

\* Python's None, as an attribute's value
None == "None"

\* the names of network objects
NetIds == {"n1", "n2", "n3", "n4", "n5", "n6", "n7", "n8"}

\* a heap cell that holds no object
Free == <<>>

\* a network's parameters are indexed 1..2 (net.parameters(), flattened)
ParamIdx == {1, 2}

\* parameter values a freshly constructed or a trained network may hold
ParamVals == {0, 1, 2}

Params == [ParamIdx -> ParamVals]

\* the encoding of a float that is not a number: an integer that no parameter,
\* KL term or multiplier of the model takes as a number
nan == -1000

\* a network all of whose parameters are not a number
NanParams == [i \in ParamIdx |-> nan]

\* the parameters a constructor may draw (random initialisation)
FreshParams == {<<0, 1>>, <<2, 0>>}

\* soft_update_tau = 2 ** -8: tau is a multiple of 1/TauDen
TauDen == 256

\* the default soft_update_tau, 2 ** -8, as a numerator over TauDen
DefaultTau == 1

\* x / TauDen rounded to the nearest unit
RoundDiv(x) == (2 * x + TauDen) \div (2 * TauDen)

---------------------------------------------------------------------------
(* AgentBase.soft_update *)

\* a plausible slip: tau and 1 - tau exchanged
soft_update_param_swapped(cur, tar, tau) ==
    RoundDiv(tar * tau) + RoundDiv(cur * (TauDen - tau))

\* one element of the zip over target_net.parameters(), current_net.parameters():
\* tar.data.copy_(cur.data.__mul__(tau) + tar.data.__mul__(1 - tau))
soft_update_param(cur, tar, tau) ==
    IF cur = nan \/ tar = nan THEN nan
    ELSE RoundDiv(cur * tau) + RoundDiv(tar * (TauDen - tau))

\* the heap after soft_update(target_net, current_net, tau)
soft_update(h, target_net, current_net, tau) ==
    [h EXCEPT ![target_net] =
        [i \in ParamIdx |-> soft_update_param(h[current_net][i], h[target_net][i], tau)]]

---------------------------------------------------------------------------
(* The agent object *)

\* an optimizer is the sequence of networks whose parameters it was given;
\* torch refuses an empty parameter list, so <<>> is the attribute still None
NoOptimizer == <<>>

\* self.ou_noise = None; the OrnsteinUhlenbeckNoise object is <<its ou_noise>>
NoNoise == <<>>

\* self.alpha_log = None; the tensor is <<its value>>, to the nearest unit
NoAlpha == <<>>

\* self.alpha_optimizer = None; the Adam optimizer of alpha_log is <<the sign of
\* its running mean of the gradient (exp_avg)>>
NoMoment == <<>>

\* AgentMPO.__init__ assigns neither eta_kl_mu nor eta_kl_sigma; the float an
\* attribute holds is <<its value>>
NoEta == <<>>

\* the float that is not a number
NaN == <<nan>>

\* the empty training record, self.train_record = {}
NoRecord == {}

Kinds == {"DQN", "DuelingDQN", "DoubleDQN", "D3QN", "DDPG", "TD3",
          "SAC", "ModSAC", "PPO", "MPO"}

\* the classes whose __init__ takes args (and so a soft_update_tau)
TakesArgs(k) == k \in {"SAC", "ModSAC", "PPO"}

\* the soft_update_tau values an args dict is drawn with
ArgTaus == {DefaultTau, 128}

\* the attributes after __init__ (AgentBase.__init__ and the subclass's own)
NewAgent(k, tau) ==
    [ act |-> None, act_target |-> None, cri |-> None, cri_target |-> None,
      act_optimizer |-> NoOptimizer, cri_optimizer |-> NoOptimizer,
      optimizer |-> NoOptimizer,
      criterion |-> None, get_obj_critic |-> None,
      soft_update_tau |-> tau,
      state |-> None,
      action_dim |-> None,
      ou_noise |-> NoNoise,
      alpha_log |-> NoAlpha,
      alpha_optimizer |-> NoMoment,
      eta_kl_mu |-> NoEta, eta_kl_sigma |-> NoEta,
      compute_reward |-> None,
      train_record |-> NoRecord ]

\* no call is running
Idle == [op |-> "idle"]

\* no call has ended yet
NoResult == [op |-> "none", status |-> "none", error |-> "none", value |-> 0, args |-> Idle]

\* soft_update has not been called yet
NoCall == [op |-> "none"]

\* the empty heap
EmptyHeap == [n \in NetIds |-> Free]

---------------------------------------------------------------------------
(* The heap *)

Pick(S) == CHOOSE x \in S : TRUE

\* the networks an agent holds, by attribute or through an optimizer
LiveNets(ag) ==
    ({ag.act, ag.act_target, ag.cri, ag.cri_target}
        \cup {ag.act_optimizer[j] : j \in DOMAIN ag.act_optimizer}
        \cup {ag.cri_optimizer[j] : j \in DOMAIN ag.cri_optimizer}
        \cup {ag.optimizer[j] : j \in DOMAIN ag.optimizer}) \ {None}

\* an object no reference reaches any more is gone
Collect(h, ag) == [n \in NetIds |-> IF n \in LiveNets(ag) THEN h[n] ELSE Free]

\* four distinct objects not yet on the heap, for the constructors of one init
FreshIds(h) ==
    LET F  == {n \in NetIds : h[n] = Free}
        a  == Pick(F)
        b  == Pick(F \ {a})
        c  == Pick(F \ {a, b})
        d  == Pick(F \ {a, b, c})
    IN  <<a, b, c, d>>

---------------------------------------------------------------------------
(* init *)

\* the discrete actions of the value-based agents: range(action_dim)
DiscreteActions == {0, 1}

\* the action_dim the caller passes to init
action_dim_arg == Cardinality(DiscreteActions)

\* the classes of the value-based family
ValueBased(k) == k \in {"DQN", "DuelingDQN", "DoubleDQN", "D3QN"}

\* def init(self, net_dim, state_dim, action_dim, reward_dim=1, if_per=False)
HasRewardDim(k) == k \in {"SAC", "ModSAC", "PPO"}

\* how the caller passes use_per: as the fourth positional argument,
\* init(net_dim, state_dim, action_dim, use_per), or by name, if_per=use_per
CallForms == {"positional", "keyword"}

\* the value the parameter if_per is bound to
BoundIfPer(k, form, use_per) ==
    IF HasRewardDim(k) /\ form = "positional"
    THEN FALSE          \* the fourth positional argument is reward_dim
    ELSE use_per

\* torch.nn.<Loss>(reduction='none' if if_per else 'mean')
Reduction(if_per) == IF if_per THEN "none" ELSE "mean"

\* self.get_obj_critic = self.get_obj_critic_per if if_per else self.get_obj_critic_raw
Objective(if_per) == IF if_per THEN "per" ELSE "raw"

\* the outcome of a call that returned
Returned(ag, h) == [agent |-> ag, nets |-> Collect(h, ag), error |-> "none"]

\* the outcome of a call that raised: the attributes assigned so far stay
Raised(ag, h, e) == [agent |-> ag, nets |-> Collect(h, ag), error |-> e]

\* AgentDQN.init, AgentDuelingDQN.init
init_DQN(ag, h, if_per, pc_, pa_) ==
    LET id == FreshIds(h)
        h1 == [h EXCEPT ![id[1]] = pc_, ![id[2]] = pc_]
        a1 == [ag EXCEPT !.action_dim = action_dim_arg,
                         !.cri = id[1], !.cri_target = id[2],
                         !.cri_optimizer = <<id[1]>>,
                         !.act = id[1],
                         !.criterion = Reduction(if_per),
                         !.get_obj_critic = Objective(if_per)]
    IN  Returned(a1, h1)

\* AgentDoubleDQN.init
init_DoubleDQN(ag, h, if_per, pc_, pa_) ==
    LET id == FreshIds(h)
        h1 == [h EXCEPT ![id[1]] = pc_, ![id[2]] = pc_]
        a1 == [ag EXCEPT !.action_dim = action_dim_arg,
                         !.cri = id[1], !.cri_target = id[2]]
        \* torch.optim.Adam(self.act.parameters(), ...), self.act still the old one
        a2 == [a1 EXCEPT !.cri_optimizer = <<ag.act>>,
                         !.act = id[1],
                         !.criterion = Reduction(if_per),
                         !.get_obj_critic = Objective(if_per)]
    IN  IF ag.act = None THEN Raised(a1, h1, "AttributeError") ELSE Returned(a2, h1)

\* a plausible slip: the actor is a copy of the critic, not the critic itself
init_D3QN_copied_actor(ag, h, if_per, pc_, pa_) ==
    LET id == FreshIds(h)
        h1 == [h EXCEPT ![id[1]] = pc_, ![id[2]] = pc_, ![id[3]] = pc_]
        a1 == [ag EXCEPT !.action_dim = action_dim_arg,
                         !.cri = id[1], !.cri_target = id[2],
                         !.act = id[3],
                         !.cri_optimizer = <<id[1]>>,
                         !.criterion = Reduction(if_per),
                         !.get_obj_critic = Objective(if_per)]
    IN  Returned(a1, h1)

\* AgentD3QN.init
init_D3QN(ag, h, if_per, pc_, pa_) ==
    LET id == FreshIds(h)
        h1 == [h EXCEPT ![id[1]] = pc_, ![id[2]] = pc_]
        a1 == [ag EXCEPT !.action_dim = action_dim_arg,
                         !.cri = id[1], !.cri_target = id[2],
                         !.act = id[1],
                         !.cri_optimizer = <<id[1]>>,
                         !.criterion = Reduction(if_per),
                         !.get_obj_critic = Objective(if_per)]
    IN  Returned(a1, h1)

\* AgentDDPG.init
init_DDPG(ag, h, if_per, pc_, pa_) ==
    LET id == FreshIds(h)
        h1 == [h EXCEPT ![id[1]] = pc_, ![id[2]] = pc_, ![id[3]] = pa_, ![id[4]] = pa_]
        a1 == [ag EXCEPT !.ou_noise = <<0>>,
                         !.cri = id[1], !.cri_target = id[2],
                         !.cri_optimizer = <<id[1]>>,
                         !.act = id[3], !.act_target = id[4],
                         !.act_optimizer = <<id[3]>>,
                         !.criterion = Reduction(if_per),
                         !.get_obj_critic = Objective(if_per)]
    IN  Returned(a1, h1)

\* AgentTD3.init
init_TD3(ag, h, if_per, pc_, pa_) ==
    LET id == FreshIds(h)
        h1 == [h EXCEPT ![id[1]] = pc_, ![id[2]] = pc_, ![id[3]] = pa_, ![id[4]] = pa_]
        a1 == [ag EXCEPT !.cri = id[1], !.cri_target = id[2],
                         !.cri_optimizer = <<id[1]>>,
                         !.act = id[3], !.act_target = id[4],
                         !.act_optimizer = <<id[3]>>,
                         !.criterion = Reduction(if_per),
                         !.get_obj_critic = Objective(if_per)]
    IN  Returned(a1, h1)

\* -np.log(action_dim) * np.e with action_dim = 2 is -1.88: to the nearest unit
alpha_log_init == -2

\* AgentSAC.init, AgentModSAC.init
init_SAC(ag, h, if_per, pc_, pa_) ==
    LET id == FreshIds(h)
        h1 == [h EXCEPT ![id[1]] = pc_, ![id[2]] = pc_, ![id[3]] = pa_]
        a1 == [ag EXCEPT !.alpha_log = <<alpha_log_init>>,
                         !.alpha_optimizer = <<0>>,
                         !.cri = id[1], !.cri_target = id[2],
                         !.cri_optimizer = <<id[1]>>,
                         !.act = id[3],
                         !.act_optimizer = <<id[3]>>,
                         !.criterion = Reduction(if_per),
                         !.get_obj_critic = Objective(if_per)]
    IN  Returned(a1, h1)

\* AgentPPO.init
init_PPO(ag, h, if_per, pc_, pa_) ==
    LET id == FreshIds(h)
        h1 == [h EXCEPT ![id[1]] = pc_, ![id[3]] = pa_]
        a1 == [ag EXCEPT !.compute_reward = "compute_reward",
                         !.cri = id[1], !.act = id[3],
                         !.optimizer = <<id[3], id[1]>>,
                         !.criterion = "mean"]
    IN  \* assert if_per is False, the last statement
        IF if_per THEN Raised(a1, h1, "AssertionError") ELSE Returned(a1, h1)

\* AgentMPO.init
init_MPO(ag, h, if_per, pc_, pa_) ==
    LET id == FreshIds(h)
        h1 == [h EXCEPT ![id[1]] = pc_, ![id[2]] = pc_, ![id[3]] = pa_, ![id[4]] = pa_]
        a1 == [ag EXCEPT !.action_dim = action_dim_arg,
                         !.act = id[3], !.act_target = id[4],
                         !.cri = id[1], !.cri_target = id[2],
                         !.criterion = "mean",
                         !.act_optimizer = <<id[3]>>,
                         !.cri_optimizer = <<id[1]>>,
                         !.eta_kl_mu = <<0>>, !.eta_kl_sigma = <<0>>]
    IN  Returned(a1, h1)

\* agent.init(...) of class k, the parameter if_per bound to if_per; pc_ and pa_
\* are the parameters the critic's and the actor's constructor draw
init(k, ag, h, if_per, pc_, pa_) ==
    CASE k \in {"DQN", "DuelingDQN"} -> init_DQN(ag, h, if_per, pc_, pa_)
      [] k = "DoubleDQN"             -> init_DoubleDQN(ag, h, if_per, pc_, pa_)
      [] k = "D3QN"                  -> init_D3QN(ag, h, if_per, pc_, pa_)
      [] k = "DDPG"                  -> init_DDPG(ag, h, if_per, pc_, pa_)
      [] k = "TD3"                   -> init_TD3(ag, h, if_per, pc_, pa_)
      [] k \in {"SAC", "ModSAC"}     -> init_SAC(ag, h, if_per, pc_, pa_)
      [] k = "PPO"                   -> init_PPO(ag, h, if_per, pc_, pa_)
      [] k = "MPO"                   -> init_MPO(ag, h, if_per, pc_, pa_)

---------------------------------------------------------------------------
(* select_action *)

\* the actions a continuous actor may return, each component in [-1, 1]
ContActions == {<<-1, 1>>, <<0, 0>>}

\* the samples rd.normal draws for the noise process, scaled by sigma*sqrt(dt)
NoiseSamples == {-1, 1}

\* the noise process keeps |ou_noise| within this while samples are drawn
OUMax == 1

\* select_action is called as the training loop calls it, under torch.no_grad(),
\* so that tensor.cpu().numpy() is defined.
\* what a select_action call does: the action it returns or the error it raises,
\* and the noise process it leaves behind
Selected(a, ou) == [error |-> "none", action |-> a, ou_noise |-> ou]
SelectRaised(e, ou) == [error |-> e, action |-> None, ou_noise |-> ou]

\* theta * self.ou_noise * dt with theta = 0.15, dt = 1e-2, to the nearest unit
Drift(x) == (2 * 3 * x + 2000) \div 4000

\* OrnsteinUhlenbeckNoise.__call__: self.ou_noise -= theta*ou_noise*dt + noise
ou_call(ou, noise) == <<ou[1] - (Drift(ou[1]) + noise)>>

\* AgentDQN.select_action: a uniform action or the argmax of self.act
select_action_DQN(ag) ==
    IF ag.act = None
    THEN {SelectRaised("TypeError", ag.ou_noise)}
    ELSE {Selected(a, ag.ou_noise) : a \in DiscreteActions}

\* AgentDoubleDQN.select_action (also D3QN's): self.act(states) first
select_action_DoubleDQN(ag) ==
    IF ag.act = None
    THEN {SelectRaised("TypeError", ag.ou_noise)}
    ELSE {Selected(a, ag.ou_noise) : a \in DiscreteActions}

\* AgentDDPG.select_action: numpy arrays have no method ratio_clip
select_action_DDPG(ag) ==
    IF ag.act = None
    THEN {SelectRaised("TypeError", ag.ou_noise)}
    ELSE {SelectRaised("AttributeError", ou_call(ag.ou_noise, z)) :
            z \in {x \in NoiseSamples : ag.ou_noise[1] - x \in -OUMax..OUMax}}

\* AgentTD3.select_action: (action + noise).clamp(-1, 1)
select_action_TD3(ag) ==
    IF ag.act = None
    THEN {SelectRaised("TypeError", ag.ou_noise)}
    ELSE {Selected(a, ag.ou_noise) : a \in ContActions}

\* AgentMPO.select_action: self.act.get_action(states)[0]
select_action_MPO(ag) ==
    IF ag.act = None
    THEN {SelectRaised("AttributeError", ag.ou_noise)}
    ELSE {Selected(a, ag.ou_noise) : a \in ContActions}

\* AgentSAC.select_action and AgentPPO.select_action are static methods of
\* (state, policy): self.select_action(self.state) lacks the argument policy
select_action_static(ag) == {SelectRaised("TypeError", ag.ou_noise)}

\* self.select_action(self.state), self.state a state of the environment
select_action(k, ag) ==
    CASE k \in {"DQN", "DuelingDQN"}    -> select_action_DQN(ag)
      [] k \in {"DoubleDQN", "D3QN"}    -> select_action_DoubleDQN(ag)
      [] k = "DDPG"                     -> select_action_DDPG(ag)
      [] k = "TD3"                      -> select_action_TD3(ag)
      [] k = "MPO"                      -> select_action_MPO(ag)
      [] k \in {"SAC", "ModSAC", "PPO"} -> select_action_static(ag)

---------------------------------------------------------------------------
(* explore_env *)

\* mask = 0.0 if done else gamma
Mask(done, gamma) == IF done THEN 0 ELSE gamma

\* other = (reward * reward_scale, 0.0 if done else gamma, *action) in
\* AgentBase.explore_env; AgentDQN.explore_env appends the int action
Other(k, action, reward, done, reward_scale, gamma) ==
    IF ValueBased(k)
    THEN <<reward * reward_scale, Mask(done, gamma), action>>
    ELSE <<reward * reward_scale, Mask(done, gamma)>> \o action

\* one iteration of the loop after env.step returned (next_s, reward, done):
\* the transition appended, whether env.reset() is called, and the new self.state
explore_step(k, st, action, next_s, reward, done, reset_s, reward_scale, gamma) ==
    [ transition |-> [state |-> st,
                      other |-> Other(k, action, reward, done, reward_scale, gamma)],
      reset      |-> done,
      state      |-> IF done THEN reset_s ELSE next_s ]

\* the call explore_env(env, buffer, target_step, reward_scale, gamma) is made
ExploreCall(Steps, ScaleGammas) ==
    /\ pc.op = "idle"
    /\ agent.state # None
    /\ \E n \in Steps, sg \in ScaleGammas :
          /\ Len(buffer) + n <= MaxBuf
          /\ pc' = [op |-> "explore_env", i |-> 0, target_step |-> n,
                    reward_scale |-> sg[1], gamma |-> sg[2], buf0 |-> buffer]
    /\ result' = NoResult
    /\ trace' = <<>>
    /\ UNCHANGED <<kind, nets, agent, env, buffer, files, printed, last>>

\* one iteration: select_action, env.step, append_buffer, env.reset on done;
\* the environment answers with a state, a reward and a done flag of the sets given
ExploreIter(States, Rewards, Dones) ==
    /\ pc.op = "explore_env"
    /\ pc.i < pc.target_step
    /\ \E sel \in select_action(kind, agent) :
          IF sel.error # "none"
          THEN /\ agent' = [agent EXCEPT !.ou_noise = sel.ou_noise]
               /\ result' = [op |-> "explore_env", status |-> "raised",
                             error |-> sel.error, value |-> 0, args |-> pc]
               /\ pc' = Idle
               /\ UNCHANGED <<env, buffer, trace>>
          ELSE \E next_s \in States, reward \in Rewards, done \in Dones,
                  reset_s \in States :
                 LET r == explore_step(kind, agent.state, sel.action, next_s, reward,
                                       done, reset_s, pc.reward_scale, pc.gamma)
                 IN  /\ (~done => reset_s = next_s)   \* reset_s is read only on done
                     /\ buffer' = Append(buffer, r.transition)
                     /\ agent' = [agent EXCEPT !.state = r.state,
                                               !.ou_noise = sel.ou_noise]
                     /\ env' = IF r.reset THEN reset_s ELSE next_s
                     /\ trace' = Append(trace,
                            [ev |-> "step", state |-> agent.state,
                             action |-> sel.action, next_s |-> next_s,
                             reward |-> reward, done |-> done,
                             reset |-> r.reset, reset_s |-> reset_s])
                     /\ pc' = [pc EXCEPT !.i = pc.i + 1]
                     /\ UNCHANGED result
    /\ UNCHANGED <<kind, nets, files, printed, last>>

\* return target_step
ExploreReturn ==
    /\ pc.op = "explore_env"
    /\ pc.i = pc.target_step
    /\ result' = [op |-> "explore_env", status |-> "returned", error |-> "none",
                  value |-> pc.target_step, args |-> pc]
    /\ pc' = Idle
    /\ UNCHANGED <<kind, nets, agent, env, buffer, files, printed, trace, last>>

---------------------------------------------------------------------------
(* update_net *)

\* repeat_times, in halves: 0.5, 1
Repeats == {1, 2}

\* the batch sizes update_net is called with
BatchSizes == {0, 1}

\* buffer.max_len, the capacity of the replay buffer
BufferMaxLen == MaxBuf

\* the parameters an optimizer step may leave a network with
TrainedParams == {<<2, 0>>, <<1, 1>>}

\* the alpha optimizer moves alpha_log within this many steps of its first value
AlphaMax == 5

\* the batches of the lifecycle sit at the target entropy: the gradient of
\* obj_alpha is zero there
LifeSigns == {0}

\* batches below, at and above the target entropy
Signs == {-1, 0, 1}

\* reliable_lambda = np.exp(-self.obj_c ** 2), in quarters: it lies in (0, 1],
\* and is 0.0 when the critic's objective is large enough for exp to underflow
Lambdas == {0, 1, 2, 4}

\* reliable_lambda before the loop body has assigned it
NoLambda == <<>>

\* a plausible slip: the threshold is taken at reliable_lambda = 1, the actor
\* follows the critic step for step
if_update_a_every_step(update_a, update_c, lam) == update_a < update_c

\* a plausible slip: the actor's counter is incremented before the test
if_update_a_counted_first(update_a, update_c, lam) ==
    (update_a + 1) * (2 * 4 - lam) < update_c * 4

\* if_update_a = (update_a / update_c) < (1 / (2 - reliable_lambda))
if_update_a(update_a, update_c, lam) == update_a * (2 * 4 - lam) < update_c * 4

\* int(target_step * repeat_times)
train_iters(target_step, rep) == (target_step * rep) \div 2

\* AgentModSAC: k = 1.0 + now_len / max_len; int(target_step * k * repeat_times)
train_steps_ModSAC(target_step, rep, now_len) ==
    (target_step * (BufferMaxLen + now_len) * rep) \div (BufferMaxLen * 2)

\* AgentModSAC: batch_size_ = int(batch_size * k), the size of the batch
\* get_obj_critic samples; the other classes pass batch_size itself
sampled_batch_size(k, batch_size, now_len) ==
    IF k = "ModSAC" THEN (batch_size * (BufferMaxLen + now_len)) \div BufferMaxLen
    ELSE batch_size

\* AgentPPO: int(repeat_times * buf_len / batch_size)
train_iters_PPO(rep, buf_len, batch_size) == (rep * buf_len) \div (2 * batch_size)

\* the number of times the loop body runs
Iterations(k, target_step, rep, batch_size, now_len) ==
    CASE k = "ModSAC" ->
            \* for update_c in range(1, train_steps)
            IF train_steps_ModSAC(target_step, rep, now_len) > 1
            THEN train_steps_ModSAC(target_step, rep, now_len) - 1 ELSE 0
      [] k = "PPO" -> train_iters_PPO(rep, now_len, batch_size)
      [] OTHER -> train_iters(target_step, rep)

\* what the names read after the loop hold before it: q_value = obj_critic = None,
\* obj_critic = obj_actor = None, or no binding at all
LocalsAtEntry(k) ==
    CASE ValueBased(k)         -> "None"
      [] k \in {"DDPG", "TD3"} -> "None"
      [] OTHER                 -> "unbound"

\* the first statement of the loop body
FirstAt(k) == IF k = "PPO" THEN "joint_step" ELSE "obj_critic"

\* AgentTD3.__init__: self.update_freq = 2
update_freq == 2

\* a plausible slip: the delay is dropped, the targets follow in every iteration
DelayedDue_every_step(k, i) == TRUE

\* TD3: if i % self.update_freq == 0
DelayedDue(k, i) == k # "TD3" \/ i % update_freq = 0

\* the position after the loop body's last statement
LoopBack(k, p) ==
    IF p.i + 1 < p.n
    THEN [p EXCEPT !.i = p.i + 1, !.at = FirstAt(k)]
    ELSE [p EXCEPT !.i = p.i + 1, !.at = "return"]

\* the position after the critic's optimizer step
AfterCriStep(k, p) ==
    IF DelayedDue(k, p.i) THEN [p EXCEPT !.at = "cri_soft"]
    ELSE [p EXCEPT !.at = "act_step"]

\* the position after the target critic's soft update
AfterCriSoft(k, p) ==
    CASE ValueBased(k)            -> LoopBack(k, p)
      [] k \in {"DDPG", "TD3"}    -> [p EXCEPT !.at = "act_step"]
      [] k \in {"SAC", "ModSAC"}  -> [p EXCEPT !.at = "alpha_step"]
      [] k = "MPO"                -> [p EXCEPT !.at = "e_step"]

\* the position after the actor's optimizer step
AfterActStep(k, p) ==
    CASE k \in {"DDPG", "MPO"}   -> [p EXCEPT !.at = "act_soft"]
      [] k = "TD3"               -> IF DelayedDue(k, p.i) THEN [p EXCEPT !.at = "act_soft"]
                                    ELSE LoopBack(k, p)
      [] k \in {"SAC", "ModSAC"} -> LoopBack(k, p)

\* an event of the running call
Event(e, p) == [ev |-> e, i |-> p.i, alpha |-> p.alpha, batch_size |-> p.batch_size_]

\* the call raises e: the exception reaches the caller
Raise(e) ==
    /\ result' = [op |-> pc.op, status |-> "raised", error |-> e, value |-> 0,
                  args |-> pc]
    /\ pc' = Idle

\* the networks whose parameters an objective's backward() gives a gradient
CriticGraph(k, ag) == {ag.cri}
ActorGraph(k, ag) ==
    IF k = "MPO" THEN {ag.act} ELSE {ag.act, ag.cri_target}

\* a plausible slip: the step moves every network the objective reaches
optimizer_step_all_grads(h, optimizer, graph, q) ==
    [n \in NetIds |-> IF n \in graph THEN q ELSE h[n]]

\* optimizer.step(): every network the optimizer holds that has a gradient gets
\* the parameters q
optimizer_step(h, optimizer, graph, q) ==
    [n \in NetIds |->
        IF (\E j \in DOMAIN optimizer : optimizer[j] = n) /\ n \in graph
        THEN q ELSE h[n]]

\* the call update_net(buffer, target_step, batch_size, repeat_times) is made:
\* the statements before the loop
UpdateCall(Cap) ==
    /\ pc.op = "idle"
    /\ \E ts \in 0..MaxSteps, rep \in Repeats, bs \in BatchSizes :
        LET p0 == [op |-> "update_net", at |-> "entry", i |-> 0, n |-> 0,
                   target_step |-> ts, batch_size |-> bs, repeat_times |-> rep,
                   update_a |-> 0, locals |-> LocalsAtEntry(kind),
                   \* alpha = self.alpha_log.exp().detach(), held as its logarithm
                   alpha |-> agent.alpha_log, reliable_lambda |-> NoLambda,
                   batch_size_ |-> sampled_batch_size(kind, bs, Len(buffer))]
            n  == Iterations(kind, ts, rep, bs, Len(buffer))
            p1 == [p0 EXCEPT !.n = n, !.at = IF n > 0 THEN FirstAt(kind) ELSE "return"]
        IN  /\ trace' = <<>>
            /\ CASE kind \in {"SAC", "ModSAC"} /\ agent.alpha_log = NoAlpha ->
                      \* alpha = self.alpha_log.exp().detach()
                      /\ pc' = Idle
                      /\ result' = [op |-> "update_net", status |-> "raised",
                                    error |-> "AttributeError", value |-> 0, args |-> p0]
                 [] kind = "PPO" /\ Len(buffer) = 0 ->
                      \* torch.cat([self.cri(...) for i in range(0, 0, bs)]): no tensor
                      /\ pc' = Idle
                      /\ result' = [op |-> "update_net", status |-> "raised",
                                    error |-> "RuntimeError", value |-> 0, args |-> p0]
                 [] kind = "PPO" /\ Len(buffer) > 0 /\ agent.cri = None ->
                      \* self.cri(buf_state[i:i + bs])
                      /\ pc' = Idle
                      /\ result' = [op |-> "update_net", status |-> "raised",
                                    error |-> "TypeError", value |-> 0, args |-> p0]
                 [] kind = "PPO" /\ agent.cri # None /\ Len(buffer) > 0 /\ bs = 0 ->
                      \* int(repeat_times * buf_len / batch_size)
                      /\ pc' = Idle
                      /\ result' = [op |-> "update_net", status |-> "raised",
                                    error |-> "ZeroDivisionError", value |-> 0, args |-> p0]
                 [] OTHER ->
                      /\ n <= Cap
                      /\ pc' = p1
                      /\ result' = NoResult
    /\ UNCHANGED <<kind, nets, agent, env, buffer, files, printed, last>>

\* the network n holds a parameter that is not a number
HasNan(h, n) == n # None /\ \E i \in DOMAIN h[n] : h[n][i] = nan

\* pi or pi_b, the distributions of act and act_target, is not a number
PolicyNan == HasNan(nets, agent.act) \/ HasNan(nets, agent.act_target)

\* AgentMPO: obj_actor = -(loss_p + self.eta_kl_mu * (...) + self.eta_kl_sigma *
\* (...)) is not a number: every gradient of the actor is not a number
ObjActorNan ==
    /\ kind = "MPO"
    /\ \/ agent.eta_kl_mu = NaN \/ agent.eta_kl_sigma = NaN
       \/ PolicyNan \/ HasNan(nets, agent.cri_target)

\* AgentMPO: q_label or q is not a number: every gradient of the critic is so
ObjCriticNan ==
    /\ kind = "MPO"
    /\ \/ HasNan(nets, agent.act_target) \/ HasNan(nets, agent.cri_target)
       \/ HasNan(nets, agent.cri)

\* obj_critic, ... = self.get_obj_critic(buffer, batch_size); AgentMPO computes
\* its critic objective in line
ObjCritic ==
    /\ pc.op = "update_net" /\ pc.at = "obj_critic"
    /\ CASE kind = "MPO" ->
              IF agent.act_target = None
              THEN Raise("AttributeError") /\ UNCHANGED trace
              ELSE \/ /\ pc' = [pc EXCEPT !.at = "cri_step"]
                      /\ trace' = Append(trace, Event("obj_critic", pc))
                      /\ UNCHANGED result
                   \/ \* self.act_target.get_distribution(next_s): a distribution
                      \* that validates its arguments refuses parameters that
                      \* are not numbers
                      /\ HasNan(nets, agent.act_target)
                      /\ Raise("ValueError") /\ UNCHANGED trace
         [] kind # "MPO" /\ agent.get_obj_critic = None ->
              Raise("TypeError") /\ UNCHANGED trace
         [] kind \in {"DQN", "DuelingDQN"} /\ agent.get_obj_critic # None ->
              \* self.cri_target(next_s, self.act_target(next_s)): act_target is None
              IF agent.act_target = None
              THEN Raise("TypeError") /\ UNCHANGED trace
              ELSE /\ pc' = [pc EXCEPT !.at = "cri_step", !.locals = "bound"]
                   /\ trace' = Append(trace, Event("obj_critic", pc))
                   /\ UNCHANGED result
         [] kind \in {"DoubleDQN", "D3QN"} /\ agent.get_obj_critic # None ->
              \* get_obj_critic_raw and get_obj_critic_per of AgentDoubleDQN
              /\ pc' = [pc EXCEPT !.at = "cri_step", !.locals = "bound"]
              /\ trace' = Append(trace, Event("obj_critic", pc))
              /\ UNCHANGED result
         [] kind \in {"DDPG", "TD3", "SAC", "ModSAC"} /\ agent.get_obj_critic # None ->
              \* get_obj_critic_per ends with buffer.td_error_update(td_error)
              /\ pc' = [pc EXCEPT !.at = "cri_step"]
              /\ trace' = IF agent.get_obj_critic = "per"
                          THEN trace \o <<Event("obj_critic", pc),
                                          Event("td_error_update", pc)>>
                          ELSE Append(trace, Event("obj_critic", pc))
              /\ UNCHANGED result
    /\ UNCHANGED <<kind, nets, agent, env, buffer, files, printed, last>>

\* self.cri_optimizer.zero_grad(); obj_critic.backward(); self.cri_optimizer.step()
CriStep ==
    /\ pc.op = "update_net" /\ pc.at = "cri_step"
    /\ IF agent.cri_optimizer = NoOptimizer
       THEN Raise("AttributeError") /\ UNCHANGED <<nets, trace>>
       ELSE \E q \in (IF ObjCriticNan THEN {NanParams} ELSE TrainedParams) :
              /\ nets' = optimizer_step(nets, agent.cri_optimizer,
                                        CriticGraph(kind, agent), q)
              /\ trace' = Append(trace, Event("cri_step", pc))
              /\ pc' = AfterCriStep(kind, pc)
              /\ UNCHANGED result
    /\ UNCHANGED <<kind, agent, env, buffer, files, printed, last>>

\* self.soft_update(self.cri_target, self.cri, self.soft_update_tau)
CriSoft ==
    /\ pc.op = "update_net" /\ pc.at = "cri_soft"
    /\ nets' = soft_update(nets, agent.cri_target, agent.cri, agent.soft_update_tau)
    /\ trace' = Append(trace, Event("cri_soft", pc))
    /\ pc' = AfterCriSoft(kind, pc)
    /\ UNCHANGED <<kind, agent, env, buffer, files, printed, result, last>>

\* torch.optim.Adam keeps a running mean of the gradient and moves the parameter
\* against it.  The signs the mean can have after a gradient of sign sgn, when it
\* had the sign m: a gradient against the mean turns it or not, by its size
adam_moment(m, sgn) ==
    IF sgn = 0 THEN {m}
    ELSE IF m \in {0, sgn} THEN {sgn}
    ELSE {m, sgn}

\* a plausible slip: the step follows the gradient's running mean, it ascends
adam_step_ascent(x, m) == x + m

\* the parameter after the step, one unit against the running mean of sign m
adam_step(x, m) == x - m

\* AgentModSAC: self.alpha_log[:] = self.alpha_log.clamp(-20, 2)
alpha_log_min == -20
alpha_log_max == 2

\* a plausible slip: the clamped value is computed and dropped
clamp_alpha_log_dropped(x) == x

\* x.clamp(-20, 2)
clamp_alpha_log(x) ==
    IF x < alpha_log_min THEN alpha_log_min
    ELSE IF x > alpha_log_max THEN alpha_log_max ELSE x

\* AgentSAC, AgentModSAC: the alpha optimizer's step on obj_alpha =
\* (alpha_log * (logprob - target_entropy).detach()).mean(); sgn is the sign of
\* mean(logprob - target_entropy), the gradient.  AgentModSAC then clamps
\* alpha_log and decides
\* if_update_a = (update_a / update_c) < (1 / (2 - reliable_lambda)).
\* Both set alpha = self.alpha_log.exp().  Steps are taken while alpha_log is
\* within Cap steps of the value init gave it; Sgns holds the signs the batches
\* give the gradient.
AlphaStep(Cap, Sgns) ==
    /\ pc.op = "update_net" /\ pc.at = "alpha_step"
    /\ \E sgn \in Sgns :
        \E m \in adam_moment(agent.alpha_optimizer[1], sgn) :
          LET stepped == adam_step(agent.alpha_log[1], m)
              new     == IF kind = "ModSAC" THEN clamp_alpha_log(stepped) ELSE stepped
              p1      == [pc EXCEPT !.alpha = <<new>>]
          IN  /\ stepped - alpha_log_init \in -Cap..Cap
              /\ agent' = [agent EXCEPT !.alpha_log = <<new>>,
                                        !.alpha_optimizer = <<m>>]
              /\ trace' = Append(trace,
                                 [ev |-> "alpha_step", i |-> pc.i, alpha |-> pc.alpha,
                                  sgn |-> sgn, exp_avg |-> agent.alpha_optimizer[1],
                                  exp_avg_new |-> m,
                                  stepped |-> stepped, alpha_log |-> new])
              /\ IF kind = "ModSAC"
                 THEN \E lam \in Lambdas :
                        LET update_c == pc.i + 1
                            p2 == [p1 EXCEPT !.reliable_lambda = <<lam>>]
                        IN  IF if_update_a(pc.update_a, update_c, lam)
                            THEN pc' = [p2 EXCEPT !.at = "act_step",
                                                  !.update_a = pc.update_a + 1]
                            ELSE pc' = LoopBack(kind, p2)
                 ELSE pc' = [p1 EXCEPT !.at = "act_step"]
    /\ UNCHANGED <<kind, nets, env, buffer, files, printed, result, last>>

\* AgentMPO: the E-step, eta = minimize(dual, ...).x[0], and qij
EStep ==
    /\ pc.op = "update_net" /\ pc.at = "e_step"
    /\ trace' = Append(trace, Event("e_step", pc))
    /\ pc' = [pc EXCEPT !.at = "m_step"]
    /\ UNCHANGED <<kind, nets, agent, env, buffer, files, printed, result, last>>

\* AgentMPO.__init__: self.epsilon_kl_mu = 0.01, self.epsilon_kl_sigma = 0.01; the
\* KL terms are counted in hundredths, the multipliers in tenths
epsilon_kl_mu == 1
epsilon_kl_sigma == 1
KlDen == 100
EtaDen == 10

\* AgentMPO.__init__: self.alpha = 10
mpo_alpha == 10

\* the KL terms gaussian_kl may return: below, at and above the bound, and not a
\* number (the determinants of near-singular covariances overflow)
Kls == {<<0>>, <<1>>, <<2>>, NaN}

\* the policies of the lifecycle sit at the bound of both KL terms
LifeKls == {<<1>>}

\* the multipliers are followed up to this value, in tenths
EtaMax == 2

\* self.eta_kl_mu -= self.alpha * (self.epsilon_kl_mu - kl_mu).detach().item()
dual_ascent(eta, eps, kl) == eta - (mpo_alpha * (eps - kl) * EtaDen) \div KlDen

\* self.eta_kl_mu = 0.0 if self.eta_kl_mu < 0.0 else self.eta_kl_mu
project(eta) == IF eta < 0 THEN 0 ELSE eta

\* both statements on floats: not a number stays so, as nan < 0.0 is False
eta_kl_update(eta, eps, kl) ==
    IF eta = NaN \/ kl = NaN THEN NaN
    ELSE <<project(dual_ascent(eta[1], eps, kl[1]))>>

\* what the isnan checks print
nan_messages(kl_mu, kl_sigma) ==
    (IF kl_mu = NaN THEN <<"kl_mu is nan">> ELSE <<>>)
    \o (IF kl_sigma = NaN THEN <<"kl_sigma is nan">> ELSE <<>>)

\* AgentMPO: the M-step up to the multipliers.  loss_p and kl_mu, kl_sigma =
\* gaussian_kl(...) are computed; a KL term that is not a number is printed and
\* embed() opens an interactive shell, which returns when it is left; then both
\* multipliers are moved and projected.  Kl holds the values the KL terms take
\* for policies that are numbers; the multipliers are followed up to Cap.
MStep(Kl, Cap) ==
    /\ pc.op = "update_net" /\ pc.at = "m_step"
    /\ \E kl_mu, kl_sigma \in (IF PolicyNan THEN {NaN} ELSE Kl) :
          LET mu    == eta_kl_update(agent.eta_kl_mu, epsilon_kl_mu, kl_mu)
              sigma == eta_kl_update(agent.eta_kl_sigma, epsilon_kl_sigma, kl_sigma)
          IN  /\ mu # NaN => mu[1] <= Cap
              /\ sigma # NaN => sigma[1] <= Cap
              /\ agent' = [agent EXCEPT !.eta_kl_mu = mu, !.eta_kl_sigma = sigma]
              /\ trace' = Append(trace,
                                 [ev |-> "m_step", i |-> pc.i, alpha |-> pc.alpha,
                                  batch_size |-> pc.batch_size_,
                                  kl_mu |-> kl_mu, kl_sigma |-> kl_sigma,
                                  before |-> <<agent.eta_kl_mu, agent.eta_kl_sigma>>,
                                  after |-> <<mu, sigma>>,
                                  printed |-> nan_messages(kl_mu, kl_sigma),
                                  embed |-> Len(nan_messages(kl_mu, kl_sigma))])
    /\ pc' = [pc EXCEPT !.at = "act_step"]
    /\ UNCHANGED <<kind, nets, env, buffer, files, printed, result, last>>

\* obj_actor = ...; self.act_optimizer.zero_grad(); obj_actor.backward();
\* self.act_optimizer.step()
ActStep ==
    /\ pc.op = "update_net" /\ pc.at = "act_step"
    /\ \E q \in (IF ObjActorNan THEN {NanParams} ELSE TrainedParams) :
          /\ nets' = optimizer_step(nets, agent.act_optimizer,
                                    ActorGraph(kind, agent), q)
          /\ trace' = Append(trace, Event("act_step", pc))
          /\ pc' = AfterActStep(kind, [pc EXCEPT !.locals = "bound"])
    /\ UNCHANGED <<kind, agent, env, buffer, files, printed, result, last>>

\* self.soft_update(self.act_target, self.act, self.soft_update_tau)
ActSoft ==
    /\ pc.op = "update_net" /\ pc.at = "act_soft"
    /\ nets' = soft_update(nets, agent.act_target, agent.act, agent.soft_update_tau)
    /\ trace' = Append(trace, Event("act_soft", pc))
    /\ pc' = LoopBack(kind, pc)
    /\ UNCHANGED <<kind, agent, env, buffer, files, printed, result, last>>

\* AgentPPO: obj_united.backward(); self.optimizer.step() over actor and critic
JointStep ==
    /\ pc.op = "update_net" /\ pc.at = "joint_step"
    /\ \E qa, qc \in TrainedParams :
          /\ nets' = [n \in NetIds |->
                        IF n = agent.optimizer[1] THEN qa
                        ELSE IF n = agent.optimizer[2] THEN qc ELSE nets[n]]
          /\ trace' = Append(trace, Event("joint_step", pc))
          /\ pc' = LoopBack(kind, [pc EXCEPT !.locals = "bound"])
    /\ UNCHANGED <<kind, agent, env, buffer, files, printed, result, last>>

\* the metric names update_record is given
RecordKeys(k) ==
    CASE k = "PPO" -> {"obj_a", "obj_c", "obj_tot", "a_std", "entropy"}
      [] k = "MPO" -> {"obj_a", "obj_c", "loss_pi", "est_q", "max_kl_mu",
                       "max_kl_sigma", "eta"}
      [] OTHER     -> {"obj_a", "obj_c"}

\* self.update_record(obj_a=..., obj_c=...); return self.train_record
UpdateReturn ==
    /\ pc.op = "update_net" /\ pc.at = "return"
    /\ CASE pc.locals = "None" ->
              \* q_value.mean() or obj_actor.item() of None
              Raise("AttributeError") /\ UNCHANGED agent
         [] pc.locals = "unbound" ->
              \* obj_actor (obj_surrogate) was never assigned
              Raise("UnboundLocalError") /\ UNCHANGED agent
         [] pc.locals = "bound" ->
              /\ agent' = [agent EXCEPT
                              !.train_record = agent.train_record \cup RecordKeys(kind)]
              /\ result' = [op |-> "update_net", status |-> "returned",
                            error |-> "none",
                            value |-> agent.train_record \cup RecordKeys(kind),
                            args |-> pc]
              /\ pc' = Idle
    /\ UNCHANGED <<kind, nets, env, buffer, files, printed, trace, last>>

---------------------------------------------------------------------------
(* save_load_model *)

\* the checkpoint directory with neither actor.pth nor critic.pth
NoFiles == [actor |-> Free, critic |-> Free]

\* if if_save: torch.save(self.act.state_dict(), act_save_path) and the critic's
save_model(ag, h, f) ==
    [ actor  |-> IF ag.act # None THEN h[ag.act] ELSE f.actor,
      critic |-> IF ag.cri # None THEN h[ag.cri] ELSE f.critic ]

\* the elif chain of the load: the heap and what is printed
load_model(ag, h, f) ==
    CASE ag.act # None /\ f.actor # Free ->
            [nets |-> [h EXCEPT ![ag.act] = f.actor], printed |-> <<"Loaded act">>]
      [] ~(ag.act # None /\ f.actor # Free) /\ ag.cri # None /\ f.critic # Free ->
            [nets |-> [h EXCEPT ![ag.cri] = f.critic], printed |-> <<"Loaded cri">>]
      [] OTHER ->
            [nets |-> h, printed |-> <<"FileNotFound when load_model">>]

\* a call save_load_model(cwd, if_save)
SaveLoadCall ==
    /\ pc.op = "idle"
    /\ \E if_save \in BOOLEAN :
          /\ IF if_save
             THEN /\ files' = save_model(agent, nets, files)
                  /\ printed' = <<>>
                  /\ UNCHANGED nets
             ELSE /\ nets' = load_model(agent, nets, files).nets
                  /\ printed' = load_model(agent, nets, files).printed
                  /\ UNCHANGED files
          /\ result' = [op |-> "save_load_model", status |-> "returned",
                        error |-> "none", value |-> 0,
                        args |-> [if_save |-> if_save, nets |-> nets, files |-> files,
                                  agent |-> agent]]
    /\ trace' = <<>>
    /\ UNCHANGED <<kind, agent, env, buffer, pc, last>>

\* outside the program: a file of the directory is removed (a directory that
\* holds actor.pth alone is what an evaluator that keeps only the policy leaves)
Unlink ==
    /\ pc.op = "idle"
    /\ \E name \in {"actor", "critic"} :
          /\ files[name] # Free
          /\ files' = [files EXCEPT ![name] = Free]
    /\ UNCHANGED <<kind, nets, agent, env, buffer, printed, pc, result, trace, last>>

---------------------------------------------------------------------------
(* The calls of the lifecycle *)

\* a fresh agent of the same class is constructed and used from now on
Construct ==
    /\ pc.op = "idle"
    /\ agent # NewAgent(kind, agent.soft_update_tau)
    /\ agent' = NewAgent(kind, agent.soft_update_tau)
    /\ nets' = EmptyHeap
    /\ result' = [op |-> "__init__", status |-> "returned", error |-> "none",
                  value |-> 0, args |-> Idle]
    /\ trace' = <<>>
    /\ UNCHANGED <<kind, env, buffer, files, printed, pc, last>>

\* a call init(net_dim, state_dim, action_dim, use_per), use_per passed as the
\* fourth positional argument or as if_per=use_per; Fresh holds the pairs
\* <<critic's, actor's>> of parameters the constructors may draw
InitCall(Fresh) ==
    /\ pc.op = "idle"
    /\ \E form \in CallForms, use_per \in BOOLEAN, pp \in Fresh :
          LET r == init(kind, agent, nets, BoundIfPer(kind, form, use_per),
                        pp[1], pp[2])
          IN  /\ agent' = r.agent
              /\ nets' = r.nets
              /\ result' = [op |-> "init",
                            status |-> IF r.error = "none" THEN "returned" ELSE "raised",
                            error |-> r.error, value |-> 0,
                            args |-> [form |-> form, use_per |-> use_per]]
    /\ trace' = <<>>
    /\ UNCHANGED <<kind, env, buffer, files, printed, pc, last>>

\* the environment of the lifecycle: one state, one reward, no terminal step
LifeStates == {"s0"}
LifeRewards == {2}
LifeArgs == {<<1, 99>>}

\* the caller sets agent.state = env.reset() before it explores
ResetEnv ==
    /\ pc.op = "idle"
    /\ agent.state = None
    /\ \E s \in LifeStates :
          /\ env' = s
          /\ agent' = [agent EXCEPT !.state = s]
    /\ UNCHANGED <<kind, nets, buffer, files, printed, pc, result, trace, last>>

\* a call agent.select_action(state); the static methods of AgentSAC and
\* AgentPPO are called as select_action(state, agent.act)
SelectActionCall ==
    /\ pc.op = "idle"
    /\ \E s \in LifeStates :
        \E sel \in (IF HasRewardDim(kind)
                    THEN IF agent.act = None
                         THEN {SelectRaised("AttributeError", agent.ou_noise)}
                         ELSE {Selected(a, agent.ou_noise) : a \in ContActions}
                    ELSE select_action(kind, agent)) :
          /\ agent' = [agent EXCEPT !.ou_noise = sel.ou_noise]
          /\ result' = [op |-> "select_action",
                        status |-> IF sel.error = "none" THEN "returned" ELSE "raised",
                        error |-> sel.error, value |-> sel.action,
                        args |-> [state |-> s, ou_noise |-> agent.ou_noise]]
    /\ trace' = <<>>
    /\ UNCHANGED <<kind, nets, env, buffer, files, printed, pc, last>>

\* a buffer that holds n transitions of the caller's earlier exploration
LifeBuffer(k, n) ==
    [j \in 1..n |->
        explore_step(k, Pick(LifeStates),
                     IF ValueBased(k) THEN Pick(DiscreteActions) ELSE Pick(ContActions),
                     Pick(LifeStates), Pick(LifeRewards), FALSE, Pick(LifeStates),
                     Pick(LifeArgs)[1], Pick(LifeArgs)[2]).transition]

\* a constructed agent, init not yet called, and the buffer update_net is given
InitLife ==
    /\ kind \in Kinds
    /\ \E tau \in ArgTaus :
          /\ (~TakesArgs(kind) => tau = DefaultTau)
          /\ agent = NewAgent(kind, tau)
    /\ nets = EmptyHeap
    /\ env = None
    /\ buffer \in {LifeBuffer(kind, n) : n \in 0..MaxBuf}
    /\ files = NoFiles
    /\ printed = <<>>
    /\ pc = Idle
    /\ result = NoResult
    /\ trace = <<>>
    /\ last = NoCall

Next ==
    \/ InitCall({<<Pick(FreshParams), Pick(FreshParams \ {Pick(FreshParams)})>>})
    \/ SelectActionCall
    \/ ResetEnv
    \/ ExploreCall(0..MaxSteps, LifeArgs)
    \/ ExploreIter(LifeStates, LifeRewards, {FALSE})
    \/ ExploreReturn
    \/ UpdateCall(MaxIter)
    \/ ObjCritic
    \/ CriStep
    \/ CriSoft
    \/ AlphaStep(AlphaMax, LifeSigns)
    \/ EStep
    \/ MStep(LifeKls, EtaMax)
    \/ ActStep
    \/ ActSoft
    \/ JointStep
    \/ UpdateReturn

Spec == InitLife /\ [][Next]_vars

\* init has run to its end on this agent
Initialised(k, ag) ==
    CASE k = "PPO" -> ag.optimizer # NoOptimizer
      [] k = "MPO" -> ag.cri_optimizer # NoOptimizer
      [] OTHER     -> ag.get_obj_critic # None

\* the target networks of the agent
Targets(ag) == {ag.act_target, ag.cri_target} \ {None}

\* the networks some optimizer of the agent holds
Optimised(ag) ==
    {n \in NetIds : \E o \in {ag.act_optimizer, ag.cri_optimizer, ag.optimizer} :
                       \E j \in DOMAIN o : o[j] = n}

\* C5: for every off-policy variant, after a call init(width, state_dim,
\* action_dim, use_per) the bound critic objective is the importance-weighted one
\* iff use_per is true and the loss is elementwise iff use_per, and no later
\* explore_env or update_net call changes the binding.
C5_PerBinding ==
    /\ [](kind \notin {"PPO", "MPO"} /\ result.op = "init" =>
            /\ agent.get_obj_critic = (IF result.args.use_per THEN "per" ELSE "raw")
            /\ agent.criterion = (IF result.args.use_per THEN "none" ELSE "mean"))
    /\ [][pc.op \in {"explore_env", "update_net"} \/ pc'.op \in {"explore_env", "update_net"}
            => /\ agent'.get_obj_critic = agent.get_obj_critic
               /\ agent'.criterion = agent.criterion]_vars

\* C6: a call of AgentPPO's init(width, state_dim, action_dim, use_per) with
\* use_per true always ends with an AssertionError, never with a return.
C6_PpoRefusesPer ==
    kind = "PPO" /\ result.op = "init" /\ result.args.use_per =>
        result.status = "raised" /\ result.error = "AssertionError"

\* C7: for a value-based agent after init, a call update_net(buffer, steps,
\* batch_size, repeat) performs exactly floor(steps * repeat) critic optimizer
\* steps, and each is followed by one soft update of the target critic before the
\* next optimizer step.
C7_ValueBasedCadence ==
    ValueBased(kind) /\ agent.cri # None /\ result.op = "update_net" =>
        LET steps == {j \in DOMAIN trace : trace[j].ev = "cri_step"}
            softs == {j \in DOMAIN trace : trace[j].ev = "cri_soft"}
        IN  /\ Cardinality(steps)
                  = (result.args.target_step * result.args.repeat_times) \div 2
            /\ \A j \in steps : j + 1 \in softs
            /\ \A j \in softs : j - 1 \in steps

\* C8: for every variant and all non-negative steps, repeat and batch size, the
\* zero-iteration inputs included, update_net on an initialised agent ends without
\* an error and returns the agent's training record.
C8_UpdateReturns ==
    Initialised(kind, agent) /\ result.op = "update_net" =>
        /\ result.status = "returned"
        /\ result.value = agent.train_record

\* C9: in every variant and across any sequence of init, explore_env and
\* update_net calls, no optimizer holds a target network, and the parameters of a
\* target network change only in a soft_update step; an optimizer step leaves
\* them as they were.
C9_TargetsOnlySoftUpdated ==
    /\ [](Targets(agent) \cap Optimised(agent) = {})
    /\ [][\A n \in Targets(agent) \cap Targets(agent') :
             nets'[n] # nets[n] =>
                pc.op = "update_net" /\ pc.at \in {"cri_soft", "act_soft"}]_vars

\* an actor's optimizer step, whose objective runs through the target critic, has
\* changed the actor, and a soft update has moved the target critic away from the
\* parameters it was constructed with
C9_Witness ==
    /\ pc.op = "update_net" /\ pc.i = 1
    /\ agent.cri_target # None
    /\ agent.cri_target \in ActorGraph(kind, agent)
    /\ \E j \in DOMAIN trace : trace[j].ev = "act_step"
    /\ \E j \in DOMAIN trace : trace[j].ev = "cri_soft"
    /\ nets[agent.cri_target] \notin FreshParams
    /\ nets[agent.act] \in TrainedParams

\* C10: on an initialised AgentDDPG, select_action(state) completes without an
\* error, draws one sample of the noise process, and returns an action whose
\* every component lies in [-1, 1].
C10_DdpgSelectAction ==
    kind = "DDPG" /\ agent.act # None /\ result.op = "select_action" =>
        /\ result.status = "returned"
        /\ \E z \in NoiseSamples : agent.ou_noise = ou_call(result.args.ou_noise, z)
        /\ \A j \in DOMAIN result.value : result.value[j] \in -1..1

---------------------------------------------------------------------------
(* Checkpoints: SpecCkpt *)

InitCkpt ==
    /\ kind \in Kinds
    /\ \E tau \in ArgTaus :
          /\ (~TakesArgs(kind) => tau = DefaultTau)
          /\ agent = NewAgent(kind, tau)
    /\ nets = EmptyHeap
    /\ env = None
    /\ buffer = <<>>
    /\ files = NoFiles
    /\ printed = <<>>
    /\ pc = Idle
    /\ result = NoResult
    /\ trace = <<>>
    /\ last = NoCall

NextCkpt ==
    \/ Construct
    \/ InitCall(FreshParams \X FreshParams)
    \/ SaveLoadCall
    \/ Unlink

SpecCkpt == InitCkpt /\ [][NextCkpt]_vars

\* C3: with separate actor and critic, a save followed by a load on a fresh
\* agent of the same architecture restores both the actor's and the critic's
\* parameters to the saved ones.
C3_RoundTrip ==
    (/\ result.op = "save_load_model" /\ ~result.args.if_save
     /\ agent.act # None /\ agent.cri # None /\ agent.act # agent.cri
     /\ result.args.files.actor # Free /\ result.args.files.critic # Free)
    => /\ nets[agent.act] = result.args.files.actor
       /\ nets[agent.cri] = result.args.files.critic

\* C4: on a load, whenever actor.pth or critic.pth is absent the absence is
\* reported, no error is raised, the network whose file is absent keeps its
\* parameters, and no target network is modified.
C4_LoadAbsentFile ==
    result.op = "save_load_model" /\ ~result.args.if_save =>
        LET f  == result.args.files
            h0 == result.args.nets
        IN  /\ result.status = "returned"
            /\ (f.actor = Free \/ f.critic = Free) =>
                   \E j \in DOMAIN printed : printed[j] = "FileNotFound when load_model"
            /\ (f.actor = Free /\ agent.act # None) => nets[agent.act] = h0[agent.act]
            /\ (f.critic = Free /\ agent.cri # None) => nets[agent.cri] = h0[agent.cri]
            /\ \A n \in Targets(agent) : nets[n] = h0[n]

---------------------------------------------------------------------------
(* explore_env on an initialised agent: SpecExplore *)

\* classes that use AgentDQN.explore_env and AgentBase.explore_env
ExploreKinds == {"DQN", "TD3", "DDPG", "SAC"}

\* what the environment may return
ExploreStates == {"s0", "s1"}
ExploreRewards == {-1, 2}

\* the <<reward_scale, gamma>> (gamma in hundredths) explore_env is called with
ExploreArgs == {<<1, 99>>, <<3, 0>>}

InitExplore ==
    /\ kind \in ExploreKinds
    /\ \E pc_, pa_ \in {Pick(FreshParams)}, s0 \in ExploreStates :
          LET r == init(kind, NewAgent(kind, DefaultTau), EmptyHeap, FALSE, pc_, pa_)
          IN  /\ agent = [r.agent EXCEPT !.state = s0]
              /\ nets = r.nets
              /\ env = s0
    /\ buffer = <<>>
    /\ files = NoFiles
    /\ printed = <<>>
    /\ pc = Idle
    /\ result = NoResult
    /\ trace = <<>>
    /\ last = NoCall

NextExplore ==
    \/ ExploreCall(0..MaxSteps, ExploreArgs)
    \/ ExploreIter(ExploreStates, ExploreRewards, BOOLEAN)
    \/ ExploreReturn

SpecExplore == InitExplore /\ [][NextExplore]_vars

\* C1: a call explore_env(env, buffer, n, reward_scale, gamma) returns n and has
\* appended exactly n transitions, in step order; the i-th holds the state the
\* i-th action was selected from, reward_i * reward_scale and the mask 0 if step i
\* was terminal, else gamma; env.reset() was called exactly after the terminal
\* steps, and self.state is the reset state after a terminal step and next_state
\* otherwise.  No call raises.
C1_ExploreEnv ==
    /\ result.status # "raised"
    /\ (pc.op = "idle" /\ result.op = "explore_env") =>
          LET n  == result.args.target_step
              b0 == result.args.buf0
              new(i) == buffer[Len(b0) + i]
              after(i) == IF trace[i].done THEN trace[i].reset_s ELSE trace[i].next_s
          IN  /\ result.value = n
              /\ Len(buffer) = Len(b0) + n
              /\ SubSeq(buffer, 1, Len(b0)) = b0
              /\ Len(trace) = n
              /\ \A i \in 1..n :
                    /\ new(i).state = trace[i].state
                    /\ new(i).other[1] = trace[i].reward * result.args.reward_scale
                    /\ new(i).other[2] = (IF trace[i].done THEN 0 ELSE result.args.gamma)
                    /\ trace[i].reset = trace[i].done
                    /\ (i < n => trace[i + 1].state = after(i))
              /\ (n > 0 => agent.state = after(n) /\ env = after(n))

---------------------------------------------------------------------------
(* soft_update as a function of its arguments: SpecSoft *)

\* the parameter values the two networks are drawn with
SoftVals == {-256, -1, 0, 3, 256}

\* the tau values soft_update is called with (numerators over TauDen)
SoftTaus == {0, DefaultTau, 64, 128, 256}

InitSoft ==
    /\ kind = "DDPG"
    /\ \E t, c \in [ParamIdx -> SoftVals] :
          nets = [EmptyHeap EXCEPT !["n1"] = t, !["n2"] = c]
    /\ agent = NewAgent("DDPG", DefaultTau)
    /\ env = None
    /\ buffer = <<>>
    /\ files = NoFiles
    /\ printed = <<>>
    /\ pc = Idle
    /\ result = NoResult
    /\ trace = <<>>
    /\ last = NoCall

\* a call soft_update(n1, n2, tau)
SoftUpdateCall ==
    /\ last.op = "none"
    /\ \E tau \in SoftTaus :
          /\ nets' = soft_update(nets, "n1", "n2", tau)
          /\ last' = [op |-> "soft_update", target_net |-> "n1", current_net |-> "n2",
                       tau |-> tau, target_old |-> nets["n1"], current_old |-> nets["n2"]]
    /\ UNCHANGED <<kind, agent, env, buffer, files, printed, pc, result, trace>>

NextSoft == SoftUpdateCall

SpecSoft == InitSoft /\ [][NextSoft]_vars

\* C2: soft_update(target, current, tau) sets every target parameter to
\* tau*current + (1-tau)*target_old (each product to the nearest unit) and leaves
\* every current parameter unchanged; with tau = 1 the target equals the current
\* network, with tau = 0 the target is unchanged.
C2_SoftUpdate ==
    last.op = "soft_update" =>
        /\ \A i \in ParamIdx :
              nets[last.target_net][i] =
                  (2 * last.tau * last.current_old[i] + TauDen) \div (2 * TauDen)
                + (2 * (TauDen - last.tau) * last.target_old[i] + TauDen) \div (2 * TauDen)
        /\ nets[last.current_net] = last.current_old
        /\ (last.tau = TauDen => nets[last.target_net] = nets[last.current_net])
        /\ (last.tau = 0 => nets[last.target_net] = last.target_old)

\* a soft update with 0 < tau < 1 has moved a target away from both its old
\* value and the current network
C2_Witness ==
    /\ last.op = "soft_update"
    /\ last.tau = 128
    /\ nets[last.target_net] # last.target_old
    /\ nets[last.target_net] # nets[last.current_net]

---------------------------------------------------------------------------
(* AgentTD3.update_net: the delayed updates *)

\* the positions in trace of the events ev of iteration i
EventsAt(ev, i) == {j \in DOMAIN trace : trace[j].ev = ev /\ trace[j].i = i}

\* the iterations of the running call that are over, or all of the call that ended
DoneIters == IF pc.op = "update_net" THEN 0..(pc.i - 1)
             ELSE IF result.op = "update_net" THEN 0..(result.args.i - 1)
             ELSE {}

\* C11: in AgentTD3.update_net, in every iteration i the critic takes one optimizer
\* step; the target critic and the target actor are each soft-updated exactly
\* once when i mod update_freq = 0 and not at all in any other iteration.
C11_Td3TargetsDelayed ==
    kind = "TD3" =>
        /\ \A i \in DoneIters :
              /\ Cardinality(EventsAt("cri_step", i)) = 1
              /\ Cardinality(EventsAt("cri_soft", i)) = (IF i % update_freq = 0 THEN 1 ELSE 0)
              /\ Cardinality(EventsAt("act_soft", i)) = (IF i % update_freq = 0 THEN 1 ELSE 0)
        /\ \A j \in DOMAIN trace :
              trace[j].ev \in {"cri_soft", "act_soft"} => trace[j].i % update_freq = 0

\* a TD3 call of two iterations has returned: the first soft-updated both targets,
\* the second neither
C11_Witness ==
    /\ kind = "TD3" /\ pc.op = "idle"
    /\ result.op = "update_net" /\ result.status = "returned"
    /\ result.args.n = 2
    /\ EventsAt("cri_soft", 0) # {} /\ EventsAt("act_soft", 0) # {}
    /\ EventsAt("cri_step", 1) # {} /\ EventsAt("cri_soft", 1) = {}

\* C12: in AgentTD3.update_net the actor's optimizer step is delayed: it is taken
\* only in the iterations i with i mod update_freq = 0, not in every iteration
\* in which the critic is updated.
C12_Td3ActorDelayed ==
    kind = "TD3" =>
        \A j \in DOMAIN trace :
            trace[j].ev = "act_step" => trace[j].i % update_freq = 0

---------------------------------------------------------------------------
(* Prioritized replay: buffer.td_error_update *)

\* the classes whose critic is a twin critic (get_q1_q2)
TwinCritic(k) == k \in {"DoubleDQN", "D3QN", "TD3", "SAC", "ModSAC"}

\* C13: for every twin-critic variant, when the prioritized objective is bound the
\* buffer is sent one priority update for the sampled batch per critic gradient
\* step, and when the raw objective is bound no priority update is ever sent.
C13_PriorityPerCriticStep ==
    TwinCritic(kind) =>
        /\ agent.get_obj_critic = "per" =>
              \A j \in DOMAIN trace :
                  trace[j].ev = "cri_step" =>
                      Cardinality(EventsAt("td_error_update", trace[j].i)) = 1
        /\ agent.get_obj_critic = "raw" =>
              \A j \in DOMAIN trace : trace[j].ev # "td_error_update"

---------------------------------------------------------------------------
(* The value-based family: self.act = self.cri *)

\* C14: on a value-based agent whose init completed, the actor and the critic are
\* one network object and the target critic is another one, equal to the critic
\* when init returns; a critic optimizer step changes the critic (and so the
\* actor) and no target parameter, and the target moves only in a soft update.
C14_ValueBasedAliasing ==
    /\ [](ValueBased(kind) /\ Initialised(kind, agent) =>
            /\ agent.act = agent.cri
            /\ agent.cri_target \notin {None, agent.cri}
            /\ (result.op = "init" => nets[agent.cri_target] = nets[agent.cri]))
    /\ [][ValueBased(kind) /\ Initialised(kind, agent) /\ Initialised(kind, agent')
            /\ agent'.cri_target = agent.cri_target
            /\ nets'[agent.cri_target] # nets[agent.cri_target]
          => pc.op = "update_net" /\ pc.at = "cri_soft"]_vars

\* on an AgentD3QN a critic optimizer step has changed the critic, the actor is
\* that same object, and the target critic still holds the parameters of init
C14_Witness ==
    /\ kind = "D3QN" /\ pc.op = "update_net" /\ pc.at = "cri_soft"
    /\ agent.act = agent.cri
    /\ nets[agent.act] \in TrainedParams
    /\ nets[agent.cri_target] \in FreshParams
    /\ nets[agent.cri_target] # nets[agent.act]

\* C15: on an AgentDoubleDQN, fresh or initialised before, a call of init
\* completes and leaves the critic optimizer bound to the parameters of the
\* current critic, the network the actor aliases.
C15_DoubleDqnOptimizer ==
    kind = "DoubleDQN" /\ result.op = "init" =>
        /\ result.status = "returned"
        /\ agent.cri # None
        /\ agent.act = agent.cri
        /\ agent.cri_optimizer = <<agent.cri>>

---------------------------------------------------------------------------
(* AgentPPO.compute_reward_adv and compute_reward_gae: SpecGae *)

\* masks, lambda and products are fixed-point numbers in quarters
GaeDen == 4

\* a * x for a factor a in quarters, rounded to the nearest unit
MulQ(a, x) == (2 * a * x + GaeDen) \div (2 * GaeDen)

\* the discount factor gamma = 0.75; a mask is 0 or gamma
GaeGamma == 3
GaeMasks == {0, GaeGamma}

\* the rewards and the critic's values of a trajectory
GaeRewards == {-1, 0, 2}
GaeValues == {0, 1}

\* self.lambda_gae_adv: 0.75 and 1
GaeLambdas == {3, GaeDen}

RECURSIVE SeqSum(_, _)
\* the sum of the first n entries of the sequence x
SeqSum(x, n) == IF n = 0 THEN 0 ELSE x[n] + SeqSum(x, n - 1)

\* (buf_adv - buf_adv.mean(dim=0)) / (buf_adv.std(dim=0) + 1e-5): entry j is given
\* by its exact numerator L * adv[j] - sum(adv) and the variance's numerator
\* L * sum(adv^2) - sum(adv)^2, which fix the quotient
Standardize(adv) ==
    LET L  == Len(adv)
        sq == [j \in 1..L |-> adv[j] * adv[j]]
    IN  [j \in 1..L |->
            <<L * adv[j] - SeqSum(adv, L),
              L * SeqSum(sq, L) - SeqSum(adv, L) * SeqSum(adv, L)>>]

RECURSIVE r_ret_from(_, _, _)
RECURSIVE gae_adv_from(_, _, _, _, _)
\* buf_r_ret[i] = buf_reward[i] + buf_mask[i] * pre_r_ret, from the last index down
r_ret_from(reward, mask, i) ==
    IF i > Len(reward) THEN 0
    ELSE reward[i] + MulQ(mask[i], r_ret_from(reward, mask, i + 1))

\* a plausible slip: the advantage of the step after is not masked
gae_adv_at_unmasked(reward_i, mask_i, pre_adv, value_i) ==
    reward_i + pre_adv - value_i

\* buf_adv[i] = buf_reward[i] + buf_mask[i] * pre_adv - buf_value[i]
gae_adv_at(reward_i, mask_i, pre_adv, value_i) ==
    reward_i + MulQ(mask_i, pre_adv) - value_i

\* buf_adv[i] of compute_reward_gae, with pre_adv = buf_value[i+1] +
\* buf_adv[i+1] * self.lambda_gae_adv and pre_adv = 0 after the last index
gae_adv_from(reward, mask, value, lam, i) ==
    IF i > Len(reward) THEN 0
    ELSE gae_adv_at(reward[i], mask[i],
                    IF i = Len(reward) THEN 0
                    ELSE value[i + 1]
                         + MulQ(lam, gae_adv_from(reward, mask, value, lam, i + 1)),
                    value[i])

\* compute_reward_adv(buf_len, buf_reward, buf_mask, buf_value); raw is buf_adv
\* before the standardization
compute_reward_adv(buf_len, reward, mask, value) ==
    LET r_ret == [i \in 1..buf_len |-> r_ret_from(reward, mask, i)]
        raw   == [i \in 1..buf_len |-> r_ret[i] - MulQ(mask[i], value[i])]
    IN  [buf_r_ret |-> r_ret, raw |-> raw, buf_adv |-> Standardize(raw)]

\* compute_reward_gae(buf_len, buf_reward, buf_mask, buf_value)
compute_reward_gae(buf_len, reward, mask, value, lam) ==
    LET r_ret == [i \in 1..buf_len |-> r_ret_from(reward, mask, i)]
        raw   == [i \in 1..buf_len |-> gae_adv_from(reward, mask, value, lam, i)]
    IN  [buf_r_ret |-> r_ret, raw |-> raw, buf_adv |-> Standardize(raw)]

\* both functions are applied to one trajectory of buf_len >= 1 steps
ComputeRewardCall ==
    /\ pc.op = "idle" /\ result.op = "none"
    /\ \E buf_len \in 1..MaxBuf, lam \in GaeLambdas :
        \E reward \in [1..buf_len -> GaeRewards], mask \in [1..buf_len -> GaeMasks],
           value \in [1..buf_len -> GaeValues] :
          result' = [op |-> "compute_reward", status |-> "returned", error |-> "none",
                     value |-> [adv |-> compute_reward_adv(buf_len, reward, mask, value),
                                gae |-> compute_reward_gae(buf_len, reward, mask, value,
                                                           lam)],
                     args |-> [buf_len |-> buf_len, buf_reward |-> reward,
                               buf_mask |-> mask, buf_value |-> value,
                               lambda_gae_adv |-> lam]]
    /\ UNCHANGED <<kind, nets, agent, env, buffer, files, printed, pc, trace, last>>

InitGae ==
    /\ kind = "PPO"
    /\ agent = NewAgent("PPO", DefaultTau)
    /\ nets = EmptyHeap
    /\ env = None
    /\ buffer = <<>>
    /\ files = NoFiles
    /\ printed = <<>>
    /\ pc = Idle
    /\ result = NoResult
    /\ trace = <<>>
    /\ last = NoCall

NextGae == ComputeRewardCall

SpecGae == InitGae /\ [][NextGae]_vars

\* C16: for a trajectory of length L >= 1 whose critic values are all zero, with
\* lambda = 1 the advantages of compute_reward_gae equal those of
\* compute_reward_adv at every index before the standardization, and both return
\* the same r_ret with r_ret[i] = reward[i] + mask[i] * r_ret[i+1], r_ret[L+1] = 0.
C16_GaeIsMonteCarlo ==
    (/\ result.op = "compute_reward"
     /\ result.args.lambda_gae_adv = GaeDen
     /\ \A i \in 1..result.args.buf_len : result.args.buf_value[i] = 0)
    => LET L   == result.args.buf_len
           rew == result.args.buf_reward
           msk == result.args.buf_mask
           ret == result.value.gae.buf_r_ret
           nxt(i) == IF i = L THEN 0 ELSE ret[i + 1]
       IN  /\ result.value.gae.raw = result.value.adv.raw
           /\ result.value.gae.buf_r_ret = result.value.adv.buf_r_ret
           /\ Len(ret) = L
           /\ \A i \in 1..L :
                 ret[i] = rew[i] + (2 * msk[i] * nxt(i) + GaeDen) \div (2 * GaeDen)

\* zero values and lambda = 1 on a trajectory with a terminal step in the middle
\* and rewards after it
C16_Witness ==
    /\ result.op = "compute_reward"
    /\ result.args.lambda_gae_adv = GaeDen
    /\ result.args.buf_len = 2
    /\ result.args.buf_value = <<0, 0>>
    /\ result.args.buf_mask = <<0, GaeGamma>>
    /\ result.args.buf_reward = <<2, -1>>
    /\ result.value.gae.raw = <<2, -1>>

---------------------------------------------------------------------------
(* AgentSAC.update_net and AgentModSAC.update_net: the temperature, SpecAlpha *)

\* the classes that learn a temperature
AlphaKinds == {"SAC", "ModSAC"}

\* an initialised agent of a class with a temperature and a buffer of earlier
\* exploration
InitAlpha ==
    /\ kind \in AlphaKinds
    /\ LET pp == <<Pick(FreshParams), Pick(FreshParams \ {Pick(FreshParams)})>>
           r  == init(kind, NewAgent(kind, DefaultTau), EmptyHeap, FALSE, pp[1], pp[2])
       IN  /\ agent = r.agent
           /\ nets = r.nets
    /\ env = Pick(LifeStates)
    /\ buffer \in {LifeBuffer(kind, n) : n \in 1..MaxBuf}
    /\ files = NoFiles
    /\ printed = <<>>
    /\ pc = Idle
    /\ result = NoResult
    /\ trace = <<>>
    /\ last = NoCall

NextAlpha ==
    \/ UpdateCall(MaxIter)
    \/ ObjCritic
    \/ CriStep
    \/ CriSoft
    \/ AlphaStep(AlphaMax, Signs)
    \/ ActStep
    \/ UpdateReturn

SpecAlpha == InitAlpha /\ [][NextAlpha]_vars

\* the positions of the running call's temperature steps in the trace
AlphaSteps == {j \in DOMAIN trace : trace[j].ev = "alpha_step"}

\* the temperature step at j moved alpha_log strictly against the sign s
MovedAgainst(j, s) ==
    /\ s = 1  => trace[j].alpha_log < trace[j].alpha[1]
    /\ s = -1 => trace[j].alpha_log > trace[j].alpha[1]

\* the step of the action is AgentSAC's or AgentModSAC's temperature step
IsAlphaStep == pc.op = "update_net" /\ pc.at = "alpha_step" /\ pc' # pc

\* C17 as the specification states it: every temperature step of AgentSAC moves
\* alpha_log against the sign of mean(log_prob - target_entropy) of its batch, so
\* alpha rises strictly at every update with log_prob below the target entropy
\* and falls strictly at every update with log_prob above it; the step changes no
\* parameter of an actor or a critic.
C17_AlphaAgainstCurrentSign ==
    /\ [](kind = "SAC" => \A j \in AlphaSteps : MovedAgainst(j, trace[j].sgn))
    /\ [][IsAlphaStep => nets' = nets]_vars

\* C17, amended: every temperature step of AgentSAC moves alpha_log strictly
\* against the sign of Adam's running mean of the gradient.  That is the sign of
\* mean(log_prob - target_entropy) of the batch when the running mean is zero (the
\* first update after init) or has that sign already, and a step that moved
\* against the batch's sign leaves the running mean with that sign: alpha rises
\* strictly at every update as long as log_prob has been below the target entropy
\* in every update since init, and falls strictly as long as it has been above.
\* The step changes no parameter of an actor or a critic.
C17_AlphaAgainstRunningMean ==
    /\ [](kind = "SAC" =>
            \A j \in AlphaSteps :
               /\ trace[j].alpha_log = trace[j].alpha[1] - trace[j].exp_avg_new
               /\ (trace[j].sgn # 0 /\ trace[j].exp_avg \in {0, trace[j].sgn})
                     => MovedAgainst(j, trace[j].sgn)
               /\ \A k \in AlphaSteps :
                     (/\ j < k
                      /\ trace[j].sgn = trace[k].sgn
                      /\ trace[j].sgn # 0
                      /\ MovedAgainst(j, trace[j].sgn)
                      /\ \A l \in AlphaSteps : ~(j < l /\ l < k))
                     => (trace[k].exp_avg = trace[k].sgn
                         /\ MovedAgainst(k, trace[k].sgn)))
    /\ [][IsAlphaStep => nets' = nets]_vars

\* AgentSAC has taken two temperature steps in one call, both on batches with
\* log_prob below the target entropy, and alpha_log rose at both
C17_Witness ==
    /\ kind = "SAC"
    /\ \E j, k \in AlphaSteps :
          /\ j < k
          /\ trace[j].sgn = -1 /\ trace[k].sgn = -1
          /\ trace[j].alpha_log = trace[j].alpha[1] + 1
          /\ trace[k].alpha[1] = trace[j].alpha_log
          /\ trace[k].alpha_log = trace[k].alpha[1] + 1

\* the alpha_log the temperature step of iteration i left, as the alpha
\* alpha_log.exp() made of it
AlphaAfter(i) == {<<trace[j].alpha_log>> : j \in EventsAt("alpha_step", i)}

\* C20: in AgentModSAC.update_net, after every temperature update alpha_log lies
\* in [-20, 2]: it is the clamped value of what the optimizer step left.  The
\* alpha in the actor objective of that iteration and in the critic label of the
\* next iteration (of this call or the first of the next call) is the exponential
\* of that clamped value.
C20_AlphaLogClamped ==
    kind = "ModSAC" =>
        /\ agent.alpha_log[1] \in alpha_log_min..alpha_log_max
        /\ \A j \in AlphaSteps :
              /\ trace[j].alpha_log \in alpha_log_min..alpha_log_max
              /\ trace[j].stepped \in alpha_log_min..alpha_log_max
                    => trace[j].alpha_log = trace[j].stepped
              /\ trace[j].stepped > alpha_log_max => trace[j].alpha_log = alpha_log_max
              /\ trace[j].stepped < alpha_log_min => trace[j].alpha_log = alpha_log_min
        /\ \A j \in DOMAIN trace :
              /\ trace[j].ev = "act_step" => trace[j].alpha \in AlphaAfter(trace[j].i)
              /\ (trace[j].ev = "obj_critic" /\ trace[j].i > 0)
                    => trace[j].alpha \in AlphaAfter(trace[j].i - 1)
        /\ (pc.op = "update_net" /\ AlphaSteps = {}) => pc.alpha = agent.alpha_log
        /\ (pc.op = "update_net" /\ AlphaSteps # {}) =>
              /\ pc.alpha = agent.alpha_log
              /\ \E j \in AlphaSteps :
                    /\ \A k \in AlphaSteps : k <= j
                    /\ agent.alpha_log = <<trace[j].alpha_log>>

\* the optimizer step of the first iteration left alpha_log above 2; the actor
\* objective of that iteration and the critic label of the next used exp(2)
C20_Witness ==
    /\ kind = "ModSAC"
    /\ \E j \in EventsAt("alpha_step", 0) : trace[j].stepped > alpha_log_max
    /\ \E j \in EventsAt("act_step", 0) : trace[j].alpha = <<alpha_log_max>>
    /\ \E j \in EventsAt("obj_critic", 1) : trace[j].alpha = <<alpha_log_max>>

---------------------------------------------------------------------------
(* AgentModSAC.update_net: the two time-scale update rule, SpecTtur *)

\* update_net calls of AgentModSAC are followed up to this many iterations
MaxUpdates == 3

\* an initialised AgentModSAC and a buffer of earlier exploration
InitTtur == InitAlpha /\ kind = "ModSAC"

NextTtur ==
    \/ UpdateCall(MaxUpdates)
    \/ ObjCritic
    \/ CriStep
    \/ CriSoft
    \/ AlphaStep(AlphaMax, LifeSigns)
    \/ ActStep
    \/ UpdateReturn

SpecTtur == InitTtur /\ [][NextTtur]_vars

\* the actor's optimizer steps the running call has taken
ActorSteps == {j \in DOMAIN trace : trace[j].ev = "act_step"}

\* the critic's counter update_c of the last iteration whose test of if_update_a
\* is over, 0 before the first
TestedIters == IF pc.at = "act_step" THEN pc.i + 1 ELSE pc.i

\* C18: in every iteration of AgentModSAC.update_net, with the critic's counter at
\* update_c and the actor's at update_a, the actor takes its optimizer step if and
\* only if update_a / update_c < 1 / (2 - reliable_lambda); update_a is
\* incremented by exactly one exactly when the step is taken and changes nowhere
\* else; the critic takes its optimizer step in every iteration.
C18_TwoTimeScale ==
    /\ [][(kind = "ModSAC" /\ IsAlphaStep) =>
            LET update_c == pc.i + 1
                lam      == pc'.reliable_lambda[1]
                taken    == pc'.at = "act_step"
            IN  /\ taken <=> (pc.update_a * (2 * 4 - lam) < update_c * 4)
                /\ pc'.update_a = pc.update_a + (IF taken THEN 1 ELSE 0)]_vars
    /\ [][(pc.op = "update_net" /\ pc'.op = "update_net"
           /\ pc'.update_a # pc.update_a) => pc.at = "alpha_step"]_vars
    /\ []((kind = "ModSAC" /\ pc.op = "update_net") =>
            /\ \A i \in DoneIters :
                  /\ Cardinality(EventsAt("cri_step", i)) = 1
                  /\ Cardinality(EventsAt("act_step", i)) <= 1
            /\ Cardinality(ActorSteps)
                  = pc.update_a - (IF pc.at = "act_step" THEN 1 ELSE 0))

\* a call of AgentModSAC.update_net has returned after three iterations: the
\* critic was stepped in the third and the actor was not
C18_Witness ==
    /\ kind = "ModSAC" /\ pc.op = "idle"
    /\ result.op = "update_net" /\ result.status = "returned"
    /\ result.args.n = 3
    /\ result.args.update_a = 2
    /\ EventsAt("cri_step", 2) # {} /\ EventsAt("act_step", 2) = {}

\* C19: in AgentModSAC.update_net, for every reliable_lambda in [0, 1], after the
\* iteration with the critic's counter at c the actor's counter a satisfies
\* ceil(c / 2) <= a <= c; the actor is updated in the first iteration.
C19_ActorCounterBounds ==
    (kind = "ModSAC" /\ pc.op = "update_net") =>
        /\ (TestedIters + 1) \div 2 <= pc.update_a
        /\ pc.update_a <= TestedIters
        /\ TestedIters >= 1 =>
              (EventsAt("act_step", 0) # {} \/ (pc.at = "act_step" /\ pc.i = 0))

\* after three iterations, the last with reliable_lambda = 0, the actor's counter
\* is at ceil(3 / 2) = 2
C19_Witness ==
    /\ kind = "ModSAC" /\ pc.op = "update_net" /\ pc.at = "return"
    /\ pc.i = 3 /\ pc.update_a = 2
    /\ pc.reliable_lambda = <<0>>

---------------------------------------------------------------------------
(* AgentModSAC.update_net: the step count and the batch size *)

\* C21: a call AgentModSAC.update_net(buffer, steps, batch_size, repeat), with
\* k = 1 + now_len / max_len, performs exactly int(steps * k * repeat) critic
\* optimizer steps, each on a batch of int(batch_size * k) transitions.
C21_ModSacStepCount ==
    (kind = "ModSAC" /\ pc.op = "update_net") =>
        /\ \A j \in DOMAIN trace :
              trace[j].ev = "obj_critic" =>
                 trace[j].batch_size
                    = (pc.batch_size * (BufferMaxLen + Len(buffer))) \div BufferMaxLen
        /\ pc.at = "return" =>
              Cardinality({j \in DOMAIN trace : trace[j].ev = "cri_step"})
                 = train_steps_ModSAC(pc.target_step, pc.repeat_times, Len(buffer))

---------------------------------------------------------------------------
(* AgentMPO.update_net: the Lagrange multipliers, SpecMpo *)

\* an initialised AgentMPO and a buffer of earlier exploration
InitMpo ==
    /\ kind = "MPO"
    /\ LET pp == <<Pick(FreshParams), Pick(FreshParams \ {Pick(FreshParams)})>>
           r  == init(kind, NewAgent(kind, DefaultTau), EmptyHeap, FALSE, pp[1], pp[2])
       IN  /\ agent = r.agent
           /\ nets = r.nets
    /\ env = Pick(LifeStates)
    /\ buffer \in {LifeBuffer(kind, n) : n \in 1..MaxBuf}
    /\ files = NoFiles
    /\ printed = <<>>
    /\ pc = Idle
    /\ result = NoResult
    /\ trace = <<>>
    /\ last = NoCall

NextMpo ==
    \/ UpdateCall(MaxIter)
    \/ ObjCritic
    \/ CriStep
    \/ CriSoft
    \/ EStep
    \/ MStep(Kls, EtaMax)
    \/ ActStep
    \/ ActSoft
    \/ UpdateReturn

SpecMpo == InitMpo /\ [][NextMpo]_vars

\* the positions of the M-steps of the running (or the last) call in the trace
MSteps == {j \in DOMAIN trace : trace[j].ev = "m_step"}

\* the M-steps in which a KL term was not a number
NanSteps == {j \in MSteps : trace[j].kl_mu = NaN \/ trace[j].kl_sigma = NaN}

\* the multiplier went from before to after as max(0, before + alpha * (kl - eps))
\* asks: both are numbers, after is not negative, it rose if kl is above eps and
\* fell, or stayed at zero, if kl is below
Ascended(before, after, eps, kl) ==
    /\ before # NaN /\ after # NaN /\ kl # NaN
    /\ after[1] >= 0
    /\ after[1] * KlDen
          = (IF before[1] * KlDen + mpo_alpha * (kl[1] - eps) * EtaDen < 0 THEN 0
             ELSE before[1] * KlDen + mpo_alpha * (kl[1] - eps) * EtaDen)
    /\ kl[1] > eps => after[1] > before[1]
    /\ kl[1] < eps => (after[1] < before[1] \/ after[1] = 0)

\* C22: after every gradient step of AgentMPO.update_net both Lagrange multipliers
\* are numbers >= 0, each max(0, its previous value + alpha * (kl - epsilon_kl)) for
\* its own KL term: it rises when its KL term exceeds its bound and falls, never
\* below zero, otherwise.
C22_MultipliersProjected ==
    kind = "MPO" =>
        \A j \in MSteps :
            /\ Ascended(trace[j].before[1], trace[j].after[1], epsilon_kl_mu,
                        trace[j].kl_mu)
            /\ Ascended(trace[j].before[2], trace[j].after[2], epsilon_kl_sigma,
                        trace[j].kl_sigma)

\* C23: when kl_mu or kl_sigma is not a number in an iteration of
\* AgentMPO.update_net, the call ends there with an exception that reaches the
\* caller: the multipliers keep their values, the actor takes no optimizer step,
\* the target actor is not soft-updated and the call does not return the
\* training record.
C23_NanFailsFast ==
    kind = "MPO" =>
        \A j \in NanSteps :
            /\ trace[j].after = trace[j].before
            /\ EventsAt("act_step", trace[j].i) = {}
            /\ EventsAt("act_soft", trace[j].i) = {}
            /\ pc.op = "idle" /\ result.op = "update_net" /\ result.status = "raised"

====
